---------------------------- MODULE Spec2Model ----------------------------
(***************************************************************************)
(* Transaction manager of dapplink-vrf (package txmgr).                     *)
(*                                                                         *)
(*   SendState        src/txmgr/send_state.go                               *)
(*   SimpleTxManager  src/unnamed/part_000 (NewSimpleTxManager, Send)       *)
(*   waitMined        src/unnamed/part_000                                  *)
(*                                                                         *)
(* Five specifications share the operators that model the code:            *)
(*   StateSpec  any sequence of calls on one SendState                      *)
(*   WaitSpec   the exported WaitMined (waitMined without a SendState)      *)
(*   PollSpec   one waitMined of a Send, with the SendState it reports to   *)
(*   Spec       construction of the manager followed by one call of Send,   *)
(*              its goroutines interleaved at every access to shared state  *)
(*   FairSpec   Spec with the fairness Go's scheduler and select give       *)
(***************************************************************************)
EXTENDS Integers, Sequences, FiniteSets, TLC

(***************************************************************************)
(* Bounds of the model.                                                    *)
(***************************************************************************)
\* Largest value of the unsigned machine word; stands for math.MaxUint64.
\* uint64 arithmetic is arithmetic modulo MaxUint + 1.
MaxUint == 3
\* Goroutines one Send may spawn (the first one and those of the ticker).
MaxAttempts == 2
\* Largest configured SafeAbortNonceTooLowCount.
MaxSafeAbort == 2
\* Largest value nonceTooLowCount is driven to in StateSpec.
MaxCount == 3
\* Transaction hashes used in StateSpec.
NumHashes == 3

VARIABLES
    mgr,          \* NewSimpleTxManager: "unbuilt", "ready" or "panicked"
    cfg,          \* Config: NumConfirmations, SafeAbortNonceTooLowCount
    drv,          \* where Send's own goroutine stands
    ret,          \* what Send returned: [receipt, err]
    sendState,    \* the SendState: minedTxs, nonceTooLowCount, safeAbortNonceTooLowCount
    ctxErr,       \* ctxc.Err(): NilErr until ctxc is cancelled
    receiptChan,  \* the buffered channel of capacity 1
    att,          \* the sendTxAsync goroutines
    spawned,      \* wg.Add calls so far; goroutine k is the k-th spawned
    hist,         \* history of the Send, read only by the properties
    lastOp,       \* StateSpec: the last call and what it returned
    wm            \* WaitSpec: one run of WaitMined

vars == <<mgr, cfg, drv, ret, sendState, ctxErr, receiptChan, att, spawned,
          hist, lastOp, wm>>

(***************************************************************************)
(* Errors.  An error is nil or a message, and a message is the sequence of *)
(* the parts it was wrapped from; strings.Contains(msg, s) holds when s is *)
(* one of the parts.  The send errors are of the kinds the callers         *)
(* distinguish: cancellation, nonce too low (bare or wrapped), any other.  *)
(***************************************************************************)
NilErr == <<>>
ErrCanceled == <<"context canceled">>
ErrDeadline == <<"context deadline exceeded">>
ErrNonceTooLow == <<"nonce too low">>
ErrWrappedNonceTooLow == <<"send failed", "nonce too low">>
ErrOther == <<"insufficient funds">>

Contains(msg, part) == \E k \in 1..Len(msg) : msg[k] = part

SendErrors == {NilErr, ErrCanceled, ErrNonceTooLow, ErrWrappedNonceTooLow, ErrOther}

\* errors.Is(err, context.Canceled) || strings.Contains(err.Error(), "context canceled")
IsCanceled(err) == err = ErrCanceled \/ Contains(err, "context canceled")

(***************************************************************************)
(* SendState (send_state.go).  A SendState is a record; every method runs  *)
(* under the mutex and is one atomic step.                                 *)
(***************************************************************************)
NoState == [minedTxs |-> {}, nonceTooLowCount |-> 0, safeAbortNonceTooLowCount |-> 0]

NewSendState(safeAbortNonceTooLowCount) ==
    [minedTxs |-> {},
     nonceTooLowCount |-> 0,
     safeAbortNonceTooLowCount |-> safeAbortNonceTooLowCount]

ProcessSendErrorExact(s, err) ==
    IF err = NilErr THEN s
    ELSE IF err # <<"nonce too low">> THEN s
    ELSE [s EXCEPT !.nonceTooLowCount = @ + 1]

ProcessSendErrorStreak(s, err) ==
    IF err = NilErr THEN [s EXCEPT !.nonceTooLowCount = 0]
    ELSE IF ~Contains(err, "nonce too low") THEN [s EXCEPT !.nonceTooLowCount = 0]
    ELSE [s EXCEPT !.nonceTooLowCount = @ + 1]

ProcessSendError(s, err) ==
    IF err = NilErr THEN s
    ELSE IF ~Contains(err, "nonce too low") THEN s
    ELSE [s EXCEPT !.nonceTooLowCount = @ + 1]

TxMined(s, txHash) ==
    [s EXCEPT !.minedTxs = @ \cup {txHash}]

TxNotMinedNoReset(s, txHash) ==
    [s EXCEPT !.minedTxs = @ \ {txHash}]

TxNotMinedResetWhenEmpty(s, txHash) ==
    LET minedTxs == s.minedTxs \ {txHash}
    IN  [s EXCEPT !.minedTxs = minedTxs,
                  !.nonceTooLowCount = IF Cardinality(minedTxs) = 0 THEN 0 ELSE @]

TxNotMined(s, txHash) ==
    LET wasMined == txHash \in s.minedTxs
        minedTxs == s.minedTxs \ {txHash}
    IN  [s EXCEPT !.minedTxs = minedTxs,
                  !.nonceTooLowCount =
                      IF Cardinality(minedTxs) = 0 /\ wasMined THEN 0 ELSE @]

ShouldAbortIgnoringMined(s) ==
    s.nonceTooLowCount >= s.safeAbortNonceTooLowCount

ShouldAbortAboveThreshold(s) ==
    IF Cardinality(s.minedTxs) > 0 THEN FALSE
    ELSE s.nonceTooLowCount > s.safeAbortNonceTooLowCount

ShouldAbortImmediately(s) ==
    IF Cardinality(s.minedTxs) > 0 THEN FALSE
    ELSE s.nonceTooLowCount >= s.safeAbortNonceTooLowCount

IsWaitingForConfirmation(s) == Cardinality(s.minedTxs) > 0


(***************************************************************************)
(* waitMined (part_000, 147-206).  uint64 arithmetic wraps.                *)
(***************************************************************************)
Heights == 0..MaxUint
\* No receipt, or no height because the call failed.
NoHeight == 0 - 1

AddUint(a, b) == (a + b) % (MaxUint + 1)

\* line 181: txHeight+numConfirmations <= tipHeight+1
Confirmed(txHeight, tipHeight, numConfirmations) ==
    AddUint(txHeight, numConfirmations) <= AddUint(tipHeight, 1)

\* What the backend answers in one iteration of the loop: the reply of
\* TransactionReceipt (a receipt's block number or NoHeight, with or without
\* an error) and, when it is asked, the reply of BlockNumber (a height or
\* NoHeight for an error).
Replies ==
    [receipt : Heights, rerr : BOOLEAN, tip : Heights \cup {NoHeight}]
    \cup [receipt : {NoHeight}, rerr : BOOLEAN, tip : {NoHeight}]

\* The case of the switch (lines 162-199) a reply falls in.
PollCase(reply) ==
    IF reply.receipt # NoHeight THEN
        IF reply.tip = NoHeight THEN "tipFailed" ELSE "mined"
    ELSE IF reply.rerr THEN "lookupFailed"
    ELSE "notMined"

\* Whether the iteration returns the receipt (line 183).
PollAccepts(reply, numConfirmations) ==
    /\ PollCase(reply) = "mined"
    /\ Confirmed(reply.receipt, reply.tip, numConfirmations)

\* The SendState after the iteration (lines 164-166 and 195-197).
PollSendStateErrNotMined(s, txHash, reply) ==
    IF reply.receipt # NoHeight THEN TxMined(s, txHash)
    ELSE TxNotMined(s, txHash)

PollSendState(s, txHash, reply) ==
    IF reply.receipt # NoHeight THEN TxMined(s, txHash)
    ELSE IF reply.rerr THEN s
    ELSE TxNotMined(s, txHash)

\* The replies the backend gives in Spec: a receipt at block 0 or at block
\* 1, and the tip at block 0 or at the largest block.
ReceiptHeights == {0, 1}
TipHeights == {0, MaxUint}

ChainReplies ==
    {reply \in Replies :
        /\ reply.receipt \in ReceiptHeights \cup {NoHeight}
        /\ reply.tip \in TipHeights \cup {NoHeight}
        /\ reply.receipt # NoHeight => ~reply.rerr}

NoReply == [receipt |-> NoHeight, rerr |-> FALSE, tip |-> NoHeight]
\* A receipt as waitMined returns it: the transaction's hash and, for the
\* properties, whether at the iteration that returned it the block of the
\* receipt was numConfirmations deep (in unbounded arithmetic).
DepthReached(reply, numConfirmations) ==
    reply.receipt + numConfirmations <= reply.tip + 1

Receipt(txHash, reply, numConfirmations) ==
    [txHash |-> txHash, depthReached |-> DepthReached(reply, numConfirmations)]

NoReceipt == [txHash |-> 0, depthReached |-> FALSE]
NoRet == [receipt |-> NoReceipt, err |-> NilErr]

(***************************************************************************)
(* State of the specifications that is not theirs stays as it starts.      *)
(***************************************************************************)
Attempts == 1..MaxAttempts
\* A goroutine of sendTxAsync: where it stands, the receipt waitMined
\* returned to it and, for the properties, whether the error it passed to
\* ProcessSendError was a nonce-too-low error that took the count to the
\* threshold, and whether the last iteration of its waitMined, which went on
\* polling, had seen the receipt numConfirmations deep (in unbounded
\* arithmetic).
NoAttempt == [pc |-> "idle", receipt |-> NoReceipt, reached |-> FALSE, deep |-> FALSE]
\* everMined: TxMined was called in this Send.  gasFailed: the first call of
\* updateGasPrice, the one of the first goroutine, returned an error that is
\* not a cancellation.  broadcast: sendTx was called in this Send.  placed:
\* the hash of the first receipt put in receiptChan, 0 before.  discarded: a
\* goroutine found receiptChan full and dropped its receipt.
NoHist == [everMined |-> FALSE, gasFailed |-> FALSE, broadcast |-> FALSE,
           placed |-> 0, discarded |-> FALSE]
\* A call on the SendState of StateSpec and, for the properties, two counts
\* of the errors passed to ProcessSendError since the count was last set to
\* zero: streak, the nonce-too-low errors since the last outcome of another
\* kind (nil included), and counted, all the nonce-too-low errors.
NoOp == [op |-> "none", err |-> NilErr, txHash |-> 0, before |-> NoState, result |-> FALSE,
         streak |-> 0, counted |-> 0]
NoWait == [pc |-> "idle", numConfirmations |-> 0, reply |-> NoReply,
           receipt |-> NoReceipt, err |-> NilErr]

sendVars == <<mgr, cfg, drv, ret, ctxErr, receiptChan, att, spawned, hist>>

SendIdle ==
    /\ mgr = "unbuilt"
    /\ cfg = [NumConfirmations |-> 0, SafeAbortNonceTooLowCount |-> 0]
    /\ drv = "idle"
    /\ ret = NoRet
    /\ ctxErr = NilErr
    /\ receiptChan = <<>>
    /\ att = [i \in Attempts |-> NoAttempt]
    /\ spawned = 0
    /\ hist = NoHist

(***************************************************************************)
(* StateSpec: any sequence of calls on one SendState.                      *)
(***************************************************************************)
Hashes == 1..NumHashes

StateInit ==
    /\ SendIdle
    /\ \E n \in 1..MaxSafeAbort : sendState = NewSendState(n)
    /\ lastOp = NoOp
    /\ wm = NoWait

CallProcessSendError ==
    \E err \in SendErrors \cup {ErrDeadline} :
        /\ sendState.nonceTooLowCount < MaxCount
        /\ sendState' = ProcessSendError(sendState, err)
        /\ lastOp' = [NoOp EXCEPT !.op = "ProcessSendError", !.err = err,
                                  !.before = sendState,
                                  !.streak = IF Contains(err, "nonce too low")
                                             THEN lastOp.streak + 1 ELSE 0,
                                  !.counted = IF Contains(err, "nonce too low")
                                              THEN lastOp.counted + 1 ELSE lastOp.counted]
        /\ UNCHANGED <<sendVars, wm>>

CallTxMined ==
    \E h \in Hashes :
        /\ sendState' = TxMined(sendState, h)
        /\ lastOp' = [NoOp EXCEPT !.op = "TxMined", !.txHash = h, !.before = sendState,
                                  !.streak = lastOp.streak, !.counted = lastOp.counted]
        /\ UNCHANGED <<sendVars, wm>>

CallTxNotMined ==
    \E h \in Hashes :
        /\ sendState' = TxNotMined(sendState, h)
        /\ lastOp' = [NoOp EXCEPT !.op = "TxNotMined", !.txHash = h, !.before = sendState,
                                  !.streak = IF sendState.minedTxs = {h}
                                             THEN 0 ELSE lastOp.streak,
                                  !.counted = IF sendState.minedTxs = {h}
                                              THEN 0 ELSE lastOp.counted]
        /\ UNCHANGED <<sendVars, wm>>

CallShouldAbortImmediately ==
    /\ sendState' = sendState
    /\ lastOp' = [NoOp EXCEPT !.op = "ShouldAbortImmediately", !.before = sendState,
                              !.result = ShouldAbortImmediately(sendState),
                              !.streak = lastOp.streak, !.counted = lastOp.counted]
    /\ UNCHANGED <<sendVars, wm>>

CallIsWaitingForConfirmation ==
    /\ sendState' = sendState
    /\ lastOp' = [NoOp EXCEPT !.op = "IsWaitingForConfirmation", !.before = sendState,
                              !.result = IsWaitingForConfirmation(sendState),
                              !.streak = lastOp.streak, !.counted = lastOp.counted]
    /\ UNCHANGED <<sendVars, wm>>

StateNext ==
    \/ CallProcessSendError
    \/ CallTxMined
    \/ CallTxNotMined
    \/ CallShouldAbortImmediately
    \/ CallIsWaitingForConfirmation

StateSpec == StateInit /\ [][StateNext]_vars


(***************************************************************************)
(* WaitSpec: WaitMined (part_000, 136-144), which is waitMined without a   *)
(* SendState, for any numConfirmations and any backend.                    *)
(***************************************************************************)
WaitInit ==
    /\ SendIdle
    /\ sendState = NoState
    /\ lastOp = NoOp
    /\ \E n \in Heights : wm = [NoWait EXCEPT !.pc = "poll", !.numConfirmations = n]

\* One iteration of the loop (lines 161-199); from the second iteration on
\* it follows a tick of queryTicker (line 203).
WaitPoll ==
    /\ wm.pc \in {"poll", "select"}
    /\ \E reply \in Replies :
        IF PollAccepts(reply, wm.numConfirmations)
        THEN wm' = [wm EXCEPT !.pc = "returned", !.reply = reply,
                              !.receipt = Receipt(1, reply, wm.numConfirmations)]
        ELSE wm' = [wm EXCEPT !.pc = "select", !.reply = reply]
    /\ UNCHANGED <<sendVars, sendState, lastOp>>

\* case <-ctx.Done() (lines 201-202)
WaitCtxDone ==
    /\ wm.pc = "select"
    /\ \E e \in {ErrCanceled, ErrDeadline} :
        wm' = [wm EXCEPT !.pc = "returned", !.reply = NoReply, !.err = e]
    /\ UNCHANGED <<sendVars, sendState, lastOp>>

WaitNext ==
    \/ WaitPoll
    \/ WaitCtxDone

WaitSpec == WaitInit /\ [][WaitNext]_vars


(***************************************************************************)
(* PollSpec: one waitMined that Send started (part_000, 98-99), with the   *)
(* SendState it reports to, for the transaction of hash 1, while the other *)
(* goroutines of the Send call the SendState as they please.               *)
(***************************************************************************)
PollInit ==
    /\ SendIdle
    /\ \E n \in 1..MaxSafeAbort : sendState = NewSendState(n)
    /\ lastOp = NoOp
    /\ \E n \in {1, MaxUint} : wm = [NoWait EXCEPT !.pc = "poll", !.numConfirmations = n]

\* One iteration of the loop (lines 161-199) with sendState not nil.
PollWithState ==
    /\ wm.pc \in {"poll", "select"}
    /\ \E reply \in Replies :
        /\ sendState' = PollSendState(sendState, 1, reply)
        /\ IF PollAccepts(reply, wm.numConfirmations)
           THEN wm' = [wm EXCEPT !.pc = "returned", !.reply = reply,
                                 !.receipt = Receipt(1, reply, wm.numConfirmations)]
           ELSE wm' = [wm EXCEPT !.pc = "select", !.reply = reply]
    /\ lastOp' = [NoOp EXCEPT !.op = "waitMined", !.txHash = 1, !.before = sendState]
    /\ UNCHANGED sendVars

\* Another goroutine of the Send calls the SendState: ProcessSendError
\* (line 83), or TxMined or TxNotMined for its own transaction (lines 165
\* and 196).
OtherCall ==
    /\ \/ \E err \in SendErrors :
            /\ sendState.nonceTooLowCount < MaxCount
            /\ sendState' = ProcessSendError(sendState, err)
       \/ \E h \in Hashes \ {1} : sendState' = TxMined(sendState, h)
       \/ \E h \in Hashes \ {1} : sendState' = TxNotMined(sendState, h)
    /\ lastOp' = [NoOp EXCEPT !.op = "other"]
    /\ UNCHANGED <<sendVars, wm>>

PollNext ==
    \/ PollWithState
    \/ WaitCtxDone
    \/ OtherCall

PollSpec == PollInit /\ [][PollNext]_vars


(***************************************************************************)
(* Spec: NewSimpleTxManager, then one call of Send.                        *)
(*                                                                         *)
(* Send's goroutine and the sendTxAsync goroutines take one step per       *)
(* access to what they share (the SendState, ctxc, receiptChan, the        *)
(* WaitGroup); a call of a hook or of the backend, which touches none of   *)
(* them, is part of the step that follows it.  Every call of               *)
(* updateGasPrice builds a new transaction: goroutine i sends the          *)
(* transaction of hash i.  The hooks and the backend may answer anything   *)
(* at any time.                                                            *)
(***************************************************************************)
\* The configurations: NumConfirmations is zero, one or the largest uint64.
Configs ==
    [NumConfirmations : {0, 1, MaxUint}, SafeAbortNonceTooLowCount : 0..MaxSafeAbort]

Init ==
    /\ mgr = "unbuilt"
    /\ cfg \in Configs
    /\ drv = "idle"
    /\ ret = NoRet
    /\ sendState = NoState
    /\ ctxErr = NilErr
    /\ receiptChan = <<>>
    /\ att = [i \in Attempts |-> NoAttempt]
    /\ spawned = 0
    /\ hist = NoHist
    /\ lastOp = NoOp
    /\ wm = NoWait

\* cancel(): the first cancellation sets ctxc.Err(), later ones change nothing.
Cancelled(e) == IF e = NilErr THEN ErrCanceled ELSE e

Done(i) == [att EXCEPT ![i] = [NoAttempt EXCEPT !.pc = "done"]]

\* NewSimpleTxManager (lines 41-49)
NewSimpleTxManager ==
    /\ mgr = "unbuilt"
    /\ mgr' = IF cfg.NumConfirmations = 0 THEN "panicked" ELSE "ready"
    /\ UNCHANGED <<cfg, drv, ret, sendState, ctxErr, receiptChan, att, spawned, hist, lastOp, wm>>

\* Send, lines 52-117: NewSendState panics on a zero threshold (the deferred
\* cancel and wg.Wait then run with no goroutine spawned); otherwise the
\* first goroutine is spawned and the loop is entered.
SendStart ==
    /\ mgr = "ready"
    /\ drv = "idle"
    /\ IF cfg.SafeAbortNonceTooLowCount = 0
       THEN /\ drv' = "panicked"
            /\ ctxErr' = ErrCanceled
            /\ UNCHANGED <<sendState, att, spawned>>
       ELSE /\ drv' = "loop"
            /\ sendState' = NewSendState(cfg.SafeAbortNonceTooLowCount)
            /\ att' = [att EXCEPT ![1].pc = "gas"]
            /\ spawned' = 1
            /\ UNCHANGED ctxErr
    /\ UNCHANGED <<mgr, cfg, ret, receiptChan, hist, lastOp, wm>>

\* The caller's context is cancelled, and ctxc with it.  The code only
\* copies ctxc.Err() to Send's result, so one error stands for the parent's.
ParentCancel ==
    /\ drv \in {"loop", "tickSkip", "tickSpawn", "deferCancel"}
    /\ ctxErr = NilErr
    /\ ctxErr' = ErrCanceled
    /\ UNCHANGED <<mgr, cfg, drv, ret, sendState, receiptChan, att, spawned, hist, lastOp, wm>>

\* sendTxAsync, lines 65-74
UpdateGasPrice(i) ==
    /\ att[i].pc = "gas"
    /\ \E err \in {NilErr, ErrCanceled, ErrOther} :
        IF err = NilErr THEN
            /\ att' = [att EXCEPT ![i].pc = "send"]
            /\ UNCHANGED <<ctxErr, hist>>
        ELSE IF IsCanceled(err) THEN
            /\ att' = Done(i)
            /\ UNCHANGED <<ctxErr, hist>>
        ELSE
            /\ att' = Done(i)
            /\ ctxErr' = Cancelled(ctxErr)
            /\ hist' = [hist EXCEPT !.gasFailed = @ \/ i = 1]
    /\ UNCHANGED <<mgr, cfg, drv, ret, sendState, receiptChan, spawned, lastOp, wm>>

\* sendTxAsync, lines 82-88 and 96
SendTx(i) ==
    /\ att[i].pc = "send"
    /\ \E err \in SendErrors :
        /\ sendState' = ProcessSendError(sendState, err)
        /\ IF err = NilErr THEN
               att' = [att EXCEPT ![i].pc = "poll"]
           ELSE IF IsCanceled(err) THEN
               att' = Done(i)
           ELSE
               att' = [att EXCEPT ![i].pc = "abortCheck",
                                  ![i].reached =
                                      /\ Contains(err, "nonce too low")
                                      /\ sendState'.nonceTooLowCount
                                            >= sendState.safeAbortNonceTooLowCount]
    /\ hist' = [hist EXCEPT !.broadcast = TRUE]
    /\ UNCHANGED <<mgr, cfg, drv, ret, ctxErr, receiptChan, spawned, lastOp, wm>>

\* sendTxAsync, line 90: the call of ShouldAbortImmediately
AbortCheckNever(i) ==
    /\ att[i].pc = "abortCheck"
    /\ att' = Done(i)
    /\ UNCHANGED <<mgr, cfg, drv, ret, sendState, ctxErr, receiptChan, spawned, hist, lastOp, wm>>

AbortCheck(i) ==
    /\ att[i].pc = "abortCheck"
    /\ att' = IF ShouldAbortImmediately(sendState)
              THEN [att EXCEPT ![i].pc = "abortCancel"]
              ELSE Done(i)
    /\ UNCHANGED <<mgr, cfg, drv, ret, sendState, ctxErr, receiptChan, spawned, hist, lastOp, wm>>

\* sendTxAsync, lines 91-93: cancel() after ShouldAbortImmediately said true
AbortCancel(i) ==
    /\ att[i].pc = "abortCancel"
    /\ ctxErr' = Cancelled(ctxErr)
    /\ att' = Done(i)
    /\ UNCHANGED <<mgr, cfg, drv, ret, sendState, receiptChan, spawned, hist, lastOp, wm>>

\* waitMined, lines 161-199: one iteration of the loop, after a tick of
\* queryTicker (line 203) from the second iteration on.
PollGivesUp(i) ==
    /\ att[i].pc \in {"poll", "wait"}
    /\ \E reply \in ChainReplies :
        /\ sendState' = PollSendState(sendState, i, reply)
        /\ hist' = [hist EXCEPT !.everMined = @ \/ reply.receipt # NoHeight]
        /\ IF PollAccepts(reply, cfg.NumConfirmations)
           THEN att' = [att EXCEPT ![i].pc = "deliver",
                                   ![i].receipt = Receipt(i, reply, cfg.NumConfirmations)]
           ELSE IF PollCase(reply) = "tipFailed"
           THEN att' = Done(i)
           ELSE att' = [att EXCEPT ![i].pc = "wait",
                                   ![i].deep = /\ PollCase(reply) = "mined"
                                               /\ DepthReached(reply, cfg.NumConfirmations)]
    /\ UNCHANGED <<mgr, cfg, drv, ret, ctxErr, receiptChan, spawned, lastOp, wm>>

Poll(i) ==
    /\ att[i].pc \in {"poll", "wait"}
    /\ \E reply \in ChainReplies :
        /\ sendState' = PollSendState(sendState, i, reply)
        /\ hist' = [hist EXCEPT !.everMined = @ \/ reply.receipt # NoHeight]
        /\ IF PollAccepts(reply, cfg.NumConfirmations)
           THEN att' = [att EXCEPT ![i].pc = "deliver",
                                   ![i].receipt = Receipt(i, reply, cfg.NumConfirmations)]
           ELSE att' = [att EXCEPT ![i].pc = "wait",
                                   ![i].deep = /\ PollCase(reply) = "mined"
                                               /\ DepthReached(reply, cfg.NumConfirmations)]
    /\ UNCHANGED <<mgr, cfg, drv, ret, ctxErr, receiptChan, spawned, lastOp, wm>>

\* waitMined, lines 201-202, then sendTxAsync lines 100-103 with no receipt
WaitCancelled(i) ==
    /\ att[i].pc = "wait"
    /\ ctxErr # NilErr
    /\ att' = Done(i)
    /\ UNCHANGED <<mgr, cfg, drv, ret, sendState, ctxErr, receiptChan, spawned, hist, lastOp, wm>>

\* sendTxAsync, lines 103-111: the send on receiptChan that does not block
DeliverOverwrite(i) ==
    /\ att[i].pc = "deliver"
    /\ receiptChan' = <<att[i].receipt>>
    /\ att' = Done(i)
    /\ hist' = [hist EXCEPT !.placed = IF @ = 0 THEN i ELSE @]
    /\ UNCHANGED <<mgr, cfg, drv, ret, sendState, ctxErr, spawned, lastOp, wm>>

Deliver(i) ==
    /\ att[i].pc = "deliver"
    /\ IF Len(receiptChan) < 1
       THEN /\ receiptChan' = Append(receiptChan, att[i].receipt)
            /\ att' = Done(i)
            /\ hist' = [hist EXCEPT !.placed = IF @ = 0 THEN i ELSE @]
       ELSE /\ att' = Done(i)
            /\ hist' = [hist EXCEPT !.discarded = TRUE]
            /\ UNCHANGED receiptChan
    /\ UNCHANGED <<mgr, cfg, drv, ret, sendState, ctxErr, spawned, lastOp, wm>>

\* Send, lines 121-122: a tick of the resubmission ticker and the call of
\* IsWaitingForConfirmation
TickAlways ==
    /\ drv = "loop"
    /\ spawned < MaxAttempts
    /\ drv' = "tickSpawn"
    /\ UNCHANGED <<mgr, cfg, ret, sendState, ctxErr, receiptChan, att, spawned,
                   hist, lastOp, wm>>

Tick ==
    /\ drv = "loop"
    /\ IsWaitingForConfirmation(sendState) \/ spawned < MaxAttempts
    /\ drv' = IF IsWaitingForConfirmation(sendState) THEN "tickSkip" ELSE "tickSpawn"
    /\ UNCHANGED <<mgr, cfg, ret, sendState, ctxErr, receiptChan, att, spawned,
                   hist, lastOp, wm>>

\* Send, line 123: continue
TickSkip ==
    /\ drv = "tickSkip"
    /\ drv' = "loop"
    /\ UNCHANGED <<mgr, cfg, ret, sendState, ctxErr, receiptChan, att, spawned,
                   hist, lastOp, wm>>

\* Send, lines 125-126
TickSpawn ==
    /\ drv = "tickSpawn"
    /\ spawned' = spawned + 1
    /\ att' = [att EXCEPT ![spawned + 1].pc = "gas"]
    /\ drv' = "loop"
    /\ UNCHANGED <<mgr, cfg, ret, sendState, ctxErr, receiptChan,
                   hist, lastOp, wm>>

\* Send, lines 127-128
CtxDone ==
    /\ drv = "loop"
    /\ ctxErr # NilErr
    /\ ret' = [receipt |-> NoReceipt, err |-> ctxErr]
    /\ drv' = "deferCancel"
    /\ UNCHANGED <<mgr, cfg, sendState, ctxErr, receiptChan, att, spawned, hist, lastOp, wm>>

\* Send, lines 129-130
RecvReceipt ==
    /\ drv = "loop"
    /\ Len(receiptChan) > 0
    /\ ret' = [receipt |-> Head(receiptChan), err |-> NilErr]
    /\ receiptChan' = Tail(receiptChan)
    /\ drv' = "deferCancel"
    /\ UNCHANGED <<mgr, cfg, sendState, ctxErr, att, spawned, hist, lastOp, wm>>

\* Send, line 56: the deferred cancel()
DeferCancel ==
    /\ drv = "deferCancel"
    /\ ctxErr' = Cancelled(ctxErr)
    /\ drv' = "wgWait"
    /\ UNCHANGED <<mgr, cfg, ret, sendState, receiptChan, att, spawned, hist, lastOp, wm>>

\* Send, line 53: the deferred wg.Wait(), after which Send returns
WgWaitNoWait ==
    /\ drv = "wgWait"
    /\ drv' = "returned"
    /\ UNCHANGED <<mgr, cfg, ret, sendState, ctxErr, receiptChan, att, spawned, hist, lastOp, wm>>

WgWait ==
    /\ drv = "wgWait"
    /\ \A i \in 1..spawned : att[i].pc = "done"
    /\ drv' = "returned"
    /\ UNCHANGED <<mgr, cfg, ret, sendState, ctxErr, receiptChan, att, spawned, hist, lastOp, wm>>

Next ==
    \/ NewSimpleTxManager
    \/ SendStart
    \/ ParentCancel
    \/ \E i \in Attempts : UpdateGasPrice(i)
    \/ \E i \in Attempts : SendTx(i)
    \/ \E i \in Attempts : AbortCheck(i)
    \/ \E i \in Attempts : AbortCancel(i)
    \/ \E i \in Attempts : Poll(i)
    \/ \E i \in Attempts : WaitCancelled(i)
    \/ \E i \in Attempts : Deliver(i)
    \/ Tick
    \/ TickSkip
    \/ TickSpawn
    \/ CtxDone
    \/ RecvReceipt
    \/ DeferCancel
    \/ WgWait

Spec == Init /\ [][Next]_vars


(***************************************************************************)
(* FairSpec: every goroutine that can take a step eventually takes one     *)
(* (the hooks and the backend return), and a select whose case is ready    *)
(* again and again eventually takes it (Go picks among the ready cases at  *)
(* random).  For waitMined's select weak fairness is assumed, which is     *)
(* less.  Ticks and the caller's cancellation are not forced.  Of          *)
(* waitMined's iterations only the first is forced: a later one changes    *)
(* the state only when the backend answers otherwise than before, which no *)
(* scheduling brings about.                                                *)
(***************************************************************************)
\* waitMined, lines 161-199: the iteration that no tick precedes
FirstPoll(i) ==
    /\ att[i].pc = "poll"
    /\ Poll(i)

AttemptStep(i) ==
    \/ UpdateGasPrice(i)
    \/ SendTx(i)
    \/ AbortCheck(i)
    \/ AbortCancel(i)
    \/ FirstPoll(i)
    \/ Deliver(i)

SendStep ==
    \/ TickSkip
    \/ TickSpawn
    \/ DeferCancel
    \/ WgWait

SendSelect ==
    \/ CtxDone
    \/ RecvReceipt

Fairness ==
    /\ \A i \in Attempts :
        /\ WF_vars(AttemptStep(i))
        /\ WF_vars(WaitCancelled(i))
    /\ WF_vars(SendStep)
    /\ SF_vars(SendSelect)

FairSpec == Init /\ [][Next]_vars /\ Fairness


(***************************************************************************)
(* Properties of SendState, under StateSpec.                               *)
(***************************************************************************)
\* C1: after any sequence of ProcessSendError, TxMined and TxNotMined, a
\* call of ShouldAbortImmediately returns true exactly when minedTxs is
\* empty and nonceTooLowCount has reached safeAbortNonceTooLowCount; with a
\* hash in minedTxs it returns false whatever the count.
C1_AbortIffEmptyAndThreshold ==
    lastOp.op = "ShouldAbortImmediately" =>
        (lastOp.result <=>
            /\ sendState.minedTxs = {}
            /\ sendState.nonceTooLowCount >= sendState.safeAbortNonceTooLowCount)

C1_Witness ==
    /\ lastOp.op = "ShouldAbortImmediately"
    /\ ~lastOp.result
    /\ sendState.minedTxs # {}
    /\ sendState.nonceTooLowCount > sendState.safeAbortNonceTooLowCount

\* C2: right after a TxNotMined(h) that found h in minedTxs and left
\* minedTxs empty, nonceTooLowCount is 0.  The methods run under the mutex,
\* so the interleavings of the goroutines are the sequences of calls.
C2_ResetWhenLastMinedRemoved ==
    ( /\ lastOp.op = "TxNotMined"
      /\ lastOp.txHash \in lastOp.before.minedTxs
      /\ sendState.minedTxs = {} )
    => sendState.nonceTooLowCount = 0

C2_Witness ==
    /\ lastOp.op = "TxNotMined"
    /\ lastOp.before.minedTxs = {lastOp.txHash}
    /\ lastOp.before.nonceTooLowCount >= 2
    /\ sendState.minedTxs = {}
    /\ sendState.nonceTooLowCount = 0

\* C3: ProcessSendError(err) adds exactly one to nonceTooLowCount when err
\* is not nil and its message contains "nonce too low", leaves the count
\* as it is for nil and for any other error, and never changes minedTxs.
C3_CountsOnlyNonceTooLow ==
    lastOp.op = "ProcessSendError" =>
        /\ sendState.nonceTooLowCount =
              lastOp.before.nonceTooLowCount +
                  (IF lastOp.err # NilErr /\ Contains(lastOp.err, "nonce too low")
                   THEN 1 ELSE 0)
        /\ sendState.minedTxs = lastOp.before.minedTxs
        /\ sendState.safeAbortNonceTooLowCount = lastOp.before.safeAbortNonceTooLowCount

C3_Witness ==
    /\ lastOp.op = "ProcessSendError"
    /\ lastOp.err = ErrWrappedNonceTooLow
    /\ lastOp.before.minedTxs # {}
    /\ sendState.nonceTooLowCount = lastOp.before.nonceTooLowCount + 1

(***************************************************************************)
(* Properties of waitMined, under WaitSpec.                                *)
(***************************************************************************)
\* C5: for numConfirmations >= 1, an iteration of waitMined that sees a
\* receipt and gets the tip returns the receipt exactly when
\* tx_block + num_confirmations <= tip_block + 1, and otherwise goes on
\* polling.
C5_AcceptsIffDepthReached ==
    ( /\ wm.numConfirmations >= 1
      /\ wm.pc \in {"select", "returned"}
      /\ PollCase(wm.reply) = "mined" )
    => (wm.pc = "returned" <=> DepthReached(wm.reply, wm.numConfirmations))

(***************************************************************************)
(* Properties of Send, under Spec and FairSpec.                            *)
(***************************************************************************)
InSend == drv \in {"loop", "tickSkip", "tickSpawn", "deferCancel", "wgWait"}

AllFinished == \A i \in Attempts : att[i].pc \in {"idle", "done"}

\* C4: Send returns a receipt and no error, or an error and no receipt;
\* the error is ctxc's, and the receipt is one a waitMined returned at an
\* iteration where tx_block + num_confirmations <= tip_block + 1.
C4_OneOutcome ==
    drv = "returned" =>
        /\ (ret.receipt # NoReceipt) # (ret.err # NilErr)
        /\ ret.err # NilErr => ret.err = ctxErr
        /\ ret.receipt # NoReceipt =>
              /\ ret.receipt.txHash \in 1..spawned
              /\ ret.receipt.depthReached

\* C6: when Send returns, every goroutine it spawned has finished; and once
\* ctxc is cancelled or a receipt is in receiptChan, Send does return.
C6_DrainsThenReturns ==
    /\ [](drv = "returned" => AllFinished)
    /\ (InSend /\ (ctxErr # NilErr \/ Len(receiptChan) > 0)) ~> (drv = "returned")

C6_Witness ==
    /\ drv = "returned"
    /\ spawned >= 2
    /\ ret.receipt # NoReceipt
    /\ AllFinished

\* C7: a tick at which IsWaitingForConfirmation is true spawns nothing; the
\* ticker's spawn (any spawn but the first) follows a tick that observed
\* minedTxs empty.
C7_NoSpawnWhileWaiting ==
    [][ /\ (drv = "loop" /\ drv' = "tickSpawn")
            => ~IsWaitingForConfirmation(sendState)
        /\ (drv = "loop" /\ IsWaitingForConfirmation(sendState))
            => (spawned' = spawned /\ drv' # "tickSpawn")
        /\ drv = "tickSkip"
            => (spawned' = spawned /\ drv' \in {"tickSkip", "loop"})
        /\ (spawned >= 1 /\ spawned' # spawned)
            => drv = "tickSpawn" ]_vars

C7_Witness ==
    /\ drv = "tickSkip"
    /\ spawned = 1
    /\ IsWaitingForConfirmation(sendState)
    /\ ctxErr = NilErr

\* C8: with NumConfirmations = 0 or SafeAbortNonceTooLowCount = 0 in the
\* configuration, construction fails: no manager is returned on which Send
\* can be called.
C8_ZeroConfigFailsConstruction ==
    (cfg.NumConfirmations = 0 \/ cfg.SafeAbortNonceTooLowCount = 0)
        => mgr # "ready"

C10_NoAbortWhileMined ==
    [][ \A i \in Attempts :
          (att[i].pc = "abortCancel" /\ att'[i].pc = "done")
          => sendState.minedTxs = {} ]_vars

\* C11: once ctxc is cancelled (by the caller, by a failure of
\* updateGasPrice or for the abort threshold), Send spawns no further
\* goroutine of sendTxAsync.
C11_NoSpawnAfterCancel ==
    [][ spawned' # spawned => ctxErr = NilErr ]_vars


\* C12: when the first call of updateGasPrice returns an error that is not a
\* cancellation, ctxc is cancelled, sendTx is never called in that Send, and
\* Send returns ctxc's cancellation error and no receipt.
C12_GasFailureCancelsUnsent ==
    hist.gasFailed =>
        /\ ctxErr # NilErr
        /\ ~hist.broadcast
        /\ drv = "returned" => (IsCanceled(ret.err) /\ ret.receipt = NoReceipt)


\* C13: nonceTooLowCount is the length of the current streak of consecutive
\* nonce-too-low send errors, so ShouldAbortImmediately tells the goroutine
\* to cancel ctxc only when the last safeAbortNonceTooLowCount outcomes of
\* sendTx were all nonce-too-low errors, with no success and no error of
\* another kind between them.
C13_AbortsOnConsecutiveStreak ==
    /\ sendState.nonceTooLowCount = lastOp.streak
    /\ (lastOp.op = "ShouldAbortImmediately" /\ lastOp.result)
           => lastOp.streak >= sendState.safeAbortNonceTooLowCount

\* C13, as the code has it: nonceTooLowCount is the number of all the
\* nonce-too-low send errors since it was last zero (at creation, or at the
\* TxNotMined that emptied minedTxs); a success or an error of another kind
\* between them does not restart it, and ShouldAbortImmediately is true only
\* with that number at the threshold and minedTxs empty.
C13_AbortsOnCountSinceReset ==
    /\ sendState.nonceTooLowCount = lastOp.counted
    /\ (lastOp.op = "ShouldAbortImmediately" /\ lastOp.result)
           => /\ lastOp.counted >= sendState.safeAbortNonceTooLowCount
              /\ sendState.minedTxs = {}

C13_Witness ==
    /\ lastOp.op = "ShouldAbortImmediately"
    /\ lastOp.result
    /\ sendState.safeAbortNonceTooLowCount = 2
    /\ lastOp.counted = 2
    /\ lastOp.streak = 1

\* C14: while the hash of a transaction is in minedTxs and its waitMined is
\* still polling (it has neither returned the receipt nor called TxNotMined
\* for it), sendTx is not called for another transaction.
C14_NoSendWhileRipening ==
    [][ \A i \in Attempts :
          (att[i].pc = "send" /\ att'[i].pc # "send")
          => ~(\E h \in sendState.minedTxs : h # i /\ att[h].pc = "wait") ]_vars

Returning == drv \in {"deferCancel", "wgWait", "returned"}

\* C15: receiptChan never holds more than one receipt; the send of a
\* goroutine never blocks, and with the slot full it drops the receipt and
\* leaves the slot as it is; Send receives from receiptChan at most once
\* (the receive leaves the loop for good); and a receipt Send returns is the
\* first one that was put in the slot.
C15_FirstReceiptWins ==
    /\ [](Len(receiptChan) <= 1)
    /\ [](\A i \in Attempts : att[i].pc = "deliver" => ENABLED Deliver(i))
    /\ [][ \A i \in Attempts :
             (att[i].pc = "deliver" /\ Len(receiptChan) = 1 /\ att'[i] # att[i])
             => (receiptChan' = receiptChan /\ att'[i].pc = "done") ]_vars
    /\ [][ Len(receiptChan') < Len(receiptChan)
             => /\ drv = "loop"
                /\ Returning'
                /\ ret' = [receipt |-> Head(receiptChan), err |-> NilErr] ]_vars
    /\ [][ Returning => Returning' ]_vars
    /\ []((drv = "returned" /\ ret.receipt # NoReceipt)
             => (hist.placed # 0 /\ ret.receipt.txHash = hist.placed))

C15_Witness ==
    /\ drv = "returned"
    /\ ret.receipt # NoReceipt
    /\ ret.receipt.txHash = hist.placed
    /\ hist.discarded
    /\ receiptChan = <<>>

InLoop == drv \in {"loop", "tickSkip", "tickSpawn"}

\* C16: under the fairness of FairSpec, if ctxc is not cancelled while Send
\* is in its loop, the sendTx of some goroutine succeeds, and every
\* iteration of that goroutine's waitMined sees the receipt with the tip at
\* or above tx_block + num_confirmations - 1, then Send eventually returns a
\* receipt.
C16_ConfirmedReceiptReturned ==
    \A i \in Attempts :
        ( /\ [](InLoop => ctxErr = NilErr)
          /\ <>(att[i].pc = "poll")
          /\ [](att[i].pc = "wait" => att[i].deep) )
        => <>(drv = "returned" /\ ret.receipt # NoReceipt)

\* C17: nonceTooLowCount decreases only in a TxNotMined(h) that found h in
\* minedTxs and left minedTxs empty; TxMined leaves the count as it is; and
\* TxNotMined(h) for an h that is not in minedTxs changes neither the count
\* nor minedTxs, also when minedTxs is already empty.
C17_CountKeptUnlessLastMinedRemoved ==
    /\ sendState.nonceTooLowCount < lastOp.before.nonceTooLowCount
          => /\ lastOp.op = "TxNotMined"
             /\ lastOp.before.minedTxs = {lastOp.txHash}
    /\ lastOp.op = "TxMined"
          => sendState.nonceTooLowCount = lastOp.before.nonceTooLowCount
    /\ (lastOp.op = "TxNotMined" /\ lastOp.txHash \notin lastOp.before.minedTxs)
          => sendState = lastOp.before

C17_Witness ==
    /\ lastOp.op = "TxNotMined"
    /\ lastOp.before.minedTxs = {}
    /\ lastOp.before.nonceTooLowCount >= 2
    /\ sendState = lastOp.before

(***************************************************************************)
(* Properties of waitMined with a SendState, under PollSpec.               *)
(***************************************************************************)
\* C18: an iteration of waitMined whose receipt lookup failed leaves the
\* SendState as it was (no TxMined, no TxNotMined) and goes on polling; an
\* iteration that saw the receipt but could not fetch the tip has reported
\* the hash mined, returns neither the receipt nor an error, and goes on
\* polling.
C18_UndecidedPollsRetry ==
    lastOp.op = "waitMined" =>
        /\ PollCase(wm.reply) = "lookupFailed"
              => /\ sendState = lastOp.before
                 /\ wm.pc = "select"
                 /\ wm.receipt = NoReceipt /\ wm.err = NilErr
                 /\ ENABLED PollWithState
        /\ PollCase(wm.reply) = "tipFailed"
              => /\ sendState =
                       [lastOp.before EXCEPT !.minedTxs = @ \cup {lastOp.txHash}]
                 /\ wm.pc = "select"
                 /\ wm.receipt = NoReceipt /\ wm.err = NilErr
                 /\ ENABLED PollWithState

C18_Witness ==
    /\ lastOp.op = "waitMined"
    /\ PollCase(wm.reply) = "tipFailed"
    /\ lastOp.txHash \notin lastOp.before.minedTxs
    /\ lastOp.before.nonceTooLowCount >= 1
    /\ lastOp.txHash \in sendState.minedTxs
    /\ wm.pc = "select"

(***************************************************************************)
(* Invariants of Send, under Spec.                                         *)
(***************************************************************************)
AbortWorthy ==
    /\ drv \notin {"idle", "panicked"}
    /\ sendState.minedTxs = {}
    /\ sendState.nonceTooLowCount >= sendState.safeAbortNonceTooLowCount

Ripening ==
    /\ InLoop
    /\ ctxErr = NilErr
    /\ receiptChan = <<>>

\* C20: in every state in which Send is in its loop, ctxc is not cancelled
\* and receiptChan is empty, every hash in minedTxs is the hash of a
\* transaction whose sendTx succeeded in this Send and whose waitMined is
\* still polling.
C20_MinedHasLivePoller ==
    Ripening =>
        \A h \in sendState.minedTxs :
            /\ h \in 1..spawned
            /\ att[h].pc \in {"poll", "wait"}

\* C20, as the code has it: ... and whose waitMined is still polling or has
\* just returned the receipt, which its goroutine is about to put in
\* receiptChan.
C20_MinedHasPollerOrReceipt ==
    Ripening =>
        \A h \in sendState.minedTxs :
            /\ h \in 1..spawned
            /\ \/ att[h].pc \in {"poll", "wait"}
               \/ att[h].pc = "deliver" /\ att[h].receipt.txHash = h

C20_Witness ==
    /\ Ripening
    /\ sendState.minedTxs = {1, 2}
    /\ att[1].pc = "deliver"
    /\ att[2].pc = "wait"

=============================================================================
